---- MODULE Spec2Model ----
(***************************************************************************)
(* Model of the generic product-page extraction engine                     *)
(* (src/scrapers/generic_scraper.py): the numeric normalizer _parse_price, *)
(* the price cascade _find_price, the stock cascade _find_stock, the name  *)
(* locator _find_name and scrape, alone and in concurrent calls; and of    *)
(* the loop of scrape_all_stores (src/price_monitor.py) with its Selenium  *)
(* fallback (src/scrapers/selenium_scraper.py); of check_opportunities and *)
(* run_check (src/price_monitor.py), of the history file of PriceDatabase  *)
(* (src/database.py) and of the two parts of the message built by          *)
(* send_price_alert (src/notifier.py).                                     *)
(*                                                                         *)
(* Texts are TLA+ strings, handled with Len, SubSeq and \o.  Python values *)
(* are tagged records: Float(m, k) is the decimal number m / 10^k with the *)
(* trailing zeros of its fraction removed (899.90 and 899.9 are the same   *)
(* float), Bool(b) a boolean, None is None, and Raised stands for an       *)
(* exception leaving the function.  The strings of the model are ASCII:    *)
(* the euro sign is written "@" and the letter i-acute is written "^".     *)
(***************************************************************************)
EXTENDS Integers, Sequences, FiniteSets, TLC

VARIABLES
    doc,    \* the parsed document (soup) handed to the locators
    arg,    \* the text handed to _parse_price
    call,   \* the operation that has run: "none" before any call
    ret,    \* the value the operation returned
    price,      \* scrape's local: the result of _find_price
    name,       \* scrape's local: the result of _find_name
    in_stock,   \* scrape's local: the result of _find_stock
    idx,        \* scrape_all_stores: the index of the product the loop is at
    step,       \* scrape_all_stores: the position inside the loop body
    store_data, \* scrape_all_stores: the local data (of the store at hand)
    prices,     \* scrape_all_stores: the list of records collected
    fetch,      \* per product, the outcome of the primary fetch
    calls,      \* the engine and Selenium invocations made, per product
    pc,         \* per concurrent call of scrape, its position
    frame,      \* the locals soup, price, name, in_stock of each call
    page,       \* per concurrent call, the document at its url
    result,     \* per concurrent call, the value it returned
    config,           \* the monitor's configuration (products, default_alert)
    current_prices,   \* run_check / check_opportunities: the scraped records
    previous_prices,  \* the value get_latest_prices returned
    opportunities,    \* the list check_opportunities returned
    db_file,          \* the content of the history file
    added,            \* the price lists handed to add_price_check so far
    mail,             \* the message send_price_alert built and its delivery
    check_pc,         \* run_check: the position inside its body
    now               \* the clock read for the timestamp of an entry

locals == <<price, name, in_stock>>

monitorVars == <<idx, step, store_data, prices, fetch, calls>>

threadVars == <<pc, frame, page, result>>

checkVars == <<config, current_prices, previous_prices, opportunities, db_file,
               added, mail, check_pc, now>>

vars == <<doc, arg, call, ret, price, name, in_stock, idx, step, store_data, prices,
          fetch, calls, pc, frame, page, result, config, current_prices,
          previous_prices, opportunities, db_file, added, mail, check_pc, now>>

None == [py |-> "None"]
Float(m, k) == [py |-> "float", m |-> m, k |-> k]
Bool(b) == [py |-> "bool", b |-> b]
Raised == [py |-> "raise"]

----------------------------------------------------------------------------
(* Bounds of the model *)

MaxLen == 3        \* longest text enumerated exhaustively for _parse_price
MaxElems == 3      \* most elements in a document
MaxProducts == 2   \* products in the configuration of the monitor
MaxChecks == 3     \* most calls of add_price_check (or of run_check) in a row
MaxThreads == 2    \* concurrent calls of scrape

----------------------------------------------------------------------------
(* String helpers: Python's str operations used by the scraper *)

CharAt(s, i) == SubSeq(s, i, i)

\* s[i:].startswith(p)
StartsAt(s, i, p) == i + Len(p) - 1 <= Len(s) /\ SubSeq(s, i, i + Len(p) - 1) = p

\* p in s
Contains(s, p) == \E i \in 1..(Len(s) - Len(p) + 1) : StartsAt(s, i, p)

Digits == {"0", "1", "2", "3", "4", "5", "6", "7", "8", "9"}

DigitVal(c) ==
    CASE c = "0" -> 0 [] c = "1" -> 1 [] c = "2" -> 2 [] c = "3" -> 3
      [] c = "4" -> 4 [] c = "5" -> 5 [] c = "6" -> 6 [] c = "7" -> 7
      [] c = "8" -> 8 [] c = "9" -> 9

RECURSIVE KeepChars(_, _)
\* the characters of s that belong to keep, in order
KeepChars(s, keep) ==
    IF s = "" THEN ""
    ELSE (IF CharAt(s, 1) \in keep THEN CharAt(s, 1) ELSE "")
         \o KeepChars(SubSeq(s, 2, Len(s)), keep)

RECURSIVE ReplaceChar(_, _, _)
\* s.replace(c, r) for a one-character c
ReplaceChar(s, c, r) ==
    IF s = "" THEN ""
    ELSE (IF CharAt(s, 1) = c THEN r ELSE CharAt(s, 1))
         \o ReplaceChar(SubSeq(s, 2, Len(s)), c, r)

RECURSIVE CountChar(_, _)
CountChar(s, c) ==
    IF s = "" THEN 0
    ELSE (IF CharAt(s, 1) = c THEN 1 ELSE 0) + CountChar(SubSeq(s, 2, Len(s)), c)

RECURSIVE DigitsToInt(_)
\* the integer written by a string of digits ("" is 0)
DigitsToInt(s) ==
    IF s = "" THEN 0
    ELSE 10 * DigitsToInt(SubSeq(s, 1, Len(s) - 1)) + DigitVal(CharAt(s, Len(s)))

RECURSIVE Pow10(_)
Pow10(k) == IF k = 0 THEN 1 ELSE 10 * Pow10(k - 1)

RECURSIVE Normal(_)
\* the decimal <<m, k>> without trailing zeros in its fraction
Normal(v) ==
    IF v.k > 0 /\ v.m % 10 = 0 THEN Normal(Float(v.m \div 10, v.k - 1)) ELSE v

\* 0 < v
Positive(v) == v.m > 0

\* v < n, for an integer n
Below(v, n) == (v.m \div Pow10(v.k)) < n

\* n < v, for an integer n
Above(v, n) == v.m > n * Pow10(v.k)

----------------------------------------------------------------------------
(* Numeric normalizer *)

\* re.sub(r'[^\d.,]', '', str(text))
CleanPrice(text) == KeepChars(text, Digits \cup {".", ","})

\* float(clean): None stands for the ValueError
PyFloat(clean) ==
    LET ds  == KeepChars(clean, Digits)
        dot == CHOOSE i \in 1..(Len(clean) + 1) :
                   i = Len(clean) + 1 \/ CharAt(clean, i) = "."
    IN  IF ds = "" \/ CountChar(clean, ".") > 1 \/ Len(ds) + CountChar(clean, ".") # Len(clean)
        THEN None
        ELSE IF CountChar(clean, ".") = 0
             THEN Float(DigitsToInt(ds), 0)
             ELSE Normal(Float(DigitsToInt(ds), Len(clean) - dot))

\* EuDecimal with the dots left in place
EuDecimal_KeepDots(clean) ==
    IF Contains(clean, ",") THEN ReplaceChar(clean, ",", ".") ELSE clean

\* if ',' in clean: clean = clean.replace('.', '').replace(',', '.')
EuDecimal(clean) ==
    IF Contains(clean, ",")
    THEN ReplaceChar(ReplaceChar(clean, ".", ""), ",", ".")
    ELSE clean

\* SanityCheck without the ceiling
SanityCheck_NoCeiling(val) == Positive(val)

\* 0 < val < 10000
SanityCheck(val) == Positive(val) /\ Below(val, 10000)

\* GenericScraper._parse_price
ParsePrice(text) ==
    IF text = "" THEN None
    ELSE LET val == PyFloat(EuDecimal(CleanPrice(text)))
         IN  IF val # None /\ SanityCheck(val) THEN val ELSE None

----------------------------------------------------------------------------
(* More of Python's str *)

UpperCase == "ABCDEFGHIJKLMNOPQRSTUVWXYZ"
LowerCase == "abcdefghijklmnopqrstuvwxyz"

LowerChar(c) ==
    IF \E i \in 1..26 : CharAt(UpperCase, i) = c
    THEN CharAt(LowerCase, CHOOSE i \in 1..26 : CharAt(UpperCase, i) = c)
    ELSE c

RECURSIVE Lower(_)
\* s.lower()
Lower(s) ==
    IF s = "" THEN "" ELSE LowerChar(CharAt(s, 1)) \o Lower(SubSeq(s, 2, Len(s)))

RECURSIVE Strip(_)
\* s.strip()
Strip(s) ==
    IF s = "" THEN ""
    ELSE IF CharAt(s, 1) = " " THEN Strip(SubSeq(s, 2, Len(s)))
    ELSE IF CharAt(s, Len(s)) = " " THEN Strip(SubSeq(s, 1, Len(s) - 1))
    ELSE s

----------------------------------------------------------------------------
(* JSON values, as json.loads returns them.  Malformed is the content of a *)
(* script block on which json.loads raises.                                *)

JNone == [j |-> "null"]
JStr(s) == [j |-> "str", s |-> s]
JNum(s) == [j |-> "num", s |-> s]          \* a number, kept as its str()
JList(items) == [j |-> "list", items |-> items]
JDict(f) == [j |-> "dict", f |-> f]
Malformed == [j |-> "malformed"]

\* obj.get(key), for a dict obj
JGet(obj, key) == IF key \in DOMAIN obj.f THEN obj.f[key] ELSE JNone

\* bool(v)
Truthy(v) ==
    CASE v.j = "str"  -> v.s # ""
      [] v.j = "num"  -> KeepChars(v.s, Digits \ {"0"}) # ""
      [] v.j = "list" -> Len(v.items) > 0
      [] v.j = "dict" -> DOMAIN v.f # {}
      [] OTHER        -> FALSE

\* a or b
PyOr(a, b) == IF Truthy(a) THEN a ELSE b

\* str(v), for a string or a number
Str(v) == v.s

----------------------------------------------------------------------------
(* The document: the elements of the page in document order.  An element   *)
(* has a tag name, attributes (name, value), its text, and for a script    *)
(* element the value of json.loads(script.string).                         *)

NoJson == [j |-> "none"]

Elem(tag, attrs, text) == [tag |-> tag, attrs |-> attrs, text |-> text, json |-> NoJson]

Script(data) ==
    [tag |-> "script", attrs |-> {<<"type", "application/ld+json">>},
     text |-> "", json |-> data]

HasAttr(e, a) == \E p \in e.attrs : p[1] = a

\* e[a], for an attribute e has
Attr(e, a) == (CHOOSE p \in e.attrs : p[1] = a)[2]

\* e.get(a, ''): the value of the attribute, '' when e has none
AttrOr(e, a) == IF HasAttr(e, a) THEN Attr(e, a) ELSE ""

\* soup.find(...): the first of the indices of the matching elements, 0
\* (None) when no element matches
First(matches) ==
    IF matches = {} THEN 0 ELSE CHOOSE i \in matches : \A k \in matches : i <= k

RECURSIVE ConcatText(_)
ConcatText(d) ==
    IF d = <<>> THEN "" ELSE Head(d).text \o ConcatText(Tail(d))

\* soup.get_text()
GetText(d) == ConcatText(d)

\* elem.get_text(strip=True)
GetTextStrip(e) == Strip(e.text)

\* what a strategy hands back to its cascade
Return(v) == [out |-> "return", val |-> v]
Fall == [out |-> "fall"]
Throw == [out |-> "throw"]

----------------------------------------------------------------------------
(* Price locator *)

IsMeta(e, prop) == e.tag = "meta" /\ HasAttr(e, "property") /\ Attr(e, "property") = prop

\* _find_price, strategy 1: OpenGraph / meta tags
PriceMeta(d) ==
    LET p == First({x \in DOMAIN d : IsMeta(d[x], "product:price:amount")})
        o == First({x \in DOMAIN d : IsMeta(d[x], "og:price:amount")})
        i == IF p # 0 THEN p ELSE o
    IN  IF i # 0 /\ AttrOr(d[i], "content") # ""
        THEN Return(ParsePrice(Attr(d[i], "content")))
        ELSE Fall

\* price = offers.get('price') or offers.get('lowPrice'); if price: return ...
OfferPrice(offer) ==
    LET found == PyOr(JGet(offer, "price"), JGet(offer, "lowPrice"))
    IN  IF Truthy(found) THEN Return(ParsePrice(Str(found))) ELSE Fall

\* _find_price, strategy 2, the body of the try for a block that is a dict
LdPriceDict(data) ==
    IF JGet(data, "@type") = JStr("Product")
    THEN LET offers == JGet(data, "offers")
         IN  IF offers.j = "dict" THEN OfferPrice(offers)
             ELSE IF offers.j = "list" /\ Len(offers.items) > 0
                  THEN IF offers.items[1].j = "dict"
                       THEN OfferPrice(offers.items[1])
                       ELSE Throw     \* offers[0].get: AttributeError
             ELSE Fall
    ELSE Fall

\* _find_price, strategy 2, one item of a block that is a list
LdPriceItem(item) ==
    IF item.j = "dict" /\ JGet(item, "@type") = JStr("Product")
    THEN LET offers == JGet(item, "offers")
         IN  IF offers.j = "dict" THEN OfferPrice(offers) ELSE Fall
    ELSE Fall

RECURSIVE LdPriceList(_)
\* _find_price, strategy 2, the body of the try for a block that is a list
LdPriceList(items) ==
    IF items = <<>> THEN Fall
    ELSE LET r == LdPriceItem(Head(items))
         IN  IF r.out = "return" THEN r ELSE LdPriceList(Tail(items))

\* _find_price, strategy 2, the body of the try for one script block
LdPriceTry(data) ==
    CASE data.j = "malformed" -> Throw     \* json.loads raises
      [] data.j = "dict"      -> LdPriceDict(data)
      [] data.j = "list"      -> LdPriceList(data.items)
      [] OTHER                -> Fall

\* LdPriceBlock without the except clause
LdPriceBlock_NoExcept(data) == LdPriceTry(data)

\* _find_price, strategy 2, one script block: try ... except: continue
LdPriceBlock(data) ==
    LET r == LdPriceTry(data) IN IF r.out = "throw" THEN Fall ELSE r

IsLdJson(e) == e.tag = "script" /\ HasAttr(e, "type") /\ Attr(e, "type") = "application/ld+json"

RECURSIVE LdPriceScripts(_)
LdPriceScripts(scripts) ==
    IF scripts = <<>> THEN Fall
    ELSE LET r == LdPriceBlock(Head(scripts).json)
         IN  IF r.out = "fall" THEN LdPriceScripts(Tail(scripts)) ELSE r

\* _find_price, strategy 2: Schema.org JSON-LD
PriceJsonLd(d) == LdPriceScripts(SelectSeq(d, IsLdJson))

DataAttrs == <<"data-price", "data-product-price", "data-price-amount">>

RECURSIVE PriceDataFrom(_, _)
PriceDataFrom(d, n) ==
    IF n > Len(DataAttrs) THEN Fall
    ELSE LET i   == First({x \in DOMAIN d : HasAttr(d[x], DataAttrs[n])})
             val == IF i # 0 THEN ParsePrice(Attr(d[i], DataAttrs[n])) ELSE None
         IN  IF val # None THEN Return(val) ELSE PriceDataFrom(d, n + 1)

\* _find_price, strategy 3: data-price and data-* attributes
PriceDataAttr(d) == PriceDataFrom(d, 1)

PricePatterns == <<"price", "preco", "precio", "prix", "cost", "value">>

LabelTags == {"span", "div", "p", "meta", "strong", "b"}

\* text = tag.get_text(strip=True) or tag.get('content') or ''
LabelText(e) == IF GetTextStrip(e) # "" THEN GetTextStrip(e) ELSE AttrOr(e, "content")

RECURSIVE FirstPrice(_)
\* the first element of the candidates whose text normalizes
FirstPrice(cands) ==
    IF cands = <<>> THEN Fall
    ELSE LET val == ParsePrice(LabelText(Head(cands)))
         IN  IF val # None THEN Return(val) ELSE FirstPrice(Tail(cands))

IsItemprop(e) == HasAttr(e, "itemprop") /\ Attr(e, "itemprop") = "price"

IsLabeled(e, pattern) ==
    /\ e.tag \in LabelTags
    /\ \/ Contains(Lower(AttrOr(e, "class")), pattern)
       \/ Contains(Lower(AttrOr(e, "id")), pattern)

RECURSIVE PriceLabelFrom(_, _)
PriceLabelFrom(d, n) ==
    IF n > Len(PricePatterns) THEN Fall
    ELSE LET i  == First({x \in DOMAIN d : IsItemprop(d[x])})
             r1 == IF i # 0 THEN FirstPrice(<<d[i]>>) ELSE Fall
             r2 == FirstPrice(SelectSeq(d, LAMBDA e : IsLabeled(e, PricePatterns[n])))
         IN  IF r1.out = "return" THEN r1
             ELSE IF r2.out = "return" THEN r2
             ELSE PriceLabelFrom(d, n + 1)

\* _find_price, strategy 4: keywords in class/id
PriceLabeled(d) == PriceLabelFrom(d, 1)

AmountChars == Digits \cup {".", ","}

RECURSIVE RunEnd(_, _)
\* the index of the last character of the run of [\d.,] starting at i
RunEnd(s, i) ==
    IF i <= Len(s) /\ CharAt(s, i) \in AmountChars THEN RunEnd(s, i + 1) ELSE i - 1

RECURSIVE SkipSpace(_, _)
\* the index after the whitespace starting at i
SkipSpace(s, i) ==
    IF i <= Len(s) /\ CharAt(s, i) = " " THEN SkipSpace(s, i + 1) ELSE i

RECURSIVE FindLeading(_, _, _)
\* re.findall(mark + r'\s*([\d.,]+)', s), scanning from index i
FindLeading(s, mark, i) ==
    IF i > Len(s) THEN <<>>
    ELSE IF StartsAt(s, i, mark)
         THEN LET j == SkipSpace(s, i + Len(mark))
                  e == RunEnd(s, j)
              IN  IF e >= j THEN <<SubSeq(s, j, e)>> \o FindLeading(s, mark, e + 1)
                  ELSE FindLeading(s, mark, i + 1)
         ELSE FindLeading(s, mark, i + 1)

RECURSIVE FindTrailing(_, _, _)
\* re.findall(r'([\d.,]+)\s*' + mark, s), scanning from index i
FindTrailing(s, mark, i) ==
    IF i > Len(s) THEN <<>>
    ELSE IF CharAt(s, i) \in AmountChars
         THEN LET e == RunEnd(s, i)
                  j == SkipSpace(s, e + 1)
              IN  IF StartsAt(s, j, mark)
                  THEN <<SubSeq(s, i, e)>> \o FindTrailing(s, mark, j + Len(mark))
                  ELSE FindTrailing(s, mark, i + 1)
         ELSE FindTrailing(s, mark, i + 1)

Euro == "@"

\* the matches of the four currency patterns, in the order they are tried
CurrencyMatches(s) ==
    <<FindLeading(s, Euro, 1), FindTrailing(s, Euro, 1),
      FindLeading(s, "EUR", 1), FindTrailing(s, "EUR", 1)>>

RECURSIVE FirstInBand_AnyValue(_)
\* the loop over matches with `if val:` alone, without the display band
FirstInBand_AnyValue(matches) ==
    IF matches = <<>> THEN Fall
    ELSE LET val == ParsePrice(Head(matches))
         IN  IF val # None THEN Return(val)
             ELSE FirstInBand_AnyValue(Tail(matches))

RECURSIVE FirstInBand(_)
\* the first match with val and 10 < val < 10000
FirstInBand(matches) ==
    IF matches = <<>> THEN Fall
    ELSE LET val == ParsePrice(Head(matches))
         IN  IF val # None /\ Above(val, 10) /\ Below(val, 10000) THEN Return(val)
             ELSE FirstInBand(Tail(matches))

RECURSIVE PriceCurrencyFrom(_, _)
PriceCurrencyFrom(ms, n) ==
    IF n > Len(ms) THEN Fall
    ELSE LET r == FirstInBand(ms[n])
         IN  IF r.out = "return" THEN r ELSE PriceCurrencyFrom(ms, n + 1)

\* _find_price, strategy 5: currency symbols with numbers
PriceCurrency(d) == PriceCurrencyFrom(CurrencyMatches(GetText(d)), 1)

\* the strategies of _find_price in the order the code runs them
PriceStrategy(n, d) ==
    CASE n = 1 -> PriceMeta(d)
      [] n = 2 -> PriceJsonLd(d)
      [] n = 3 -> PriceDataAttr(d)
      [] n = 4 -> PriceLabeled(d)
      [] n = 5 -> PriceCurrency(d)

RECURSIVE PriceCascade(_, _)
PriceCascade(d, n) ==
    IF n > 5 THEN None
    ELSE LET r == PriceStrategy(n, d)
         IN  CASE r.out = "return" -> r.val
               [] r.out = "throw"  -> Raised
               [] OTHER            -> PriceCascade(d, n + 1)

\* GenericScraper._find_price
FindPrice(d) == PriceCascade(d, 1)

----------------------------------------------------------------------------
(* Stock locator *)

\* any(x in content for x in words)
AnyIn(words, content) == \E x \in words : Contains(content, x)

InStockWords == {"instock", "in stock", "available", "disponivel", "dispon^vel"}

OutOfStockWords == {"oos", "out of stock", "unavailable", "esgotado", "indisponivel"}

\* the availability meta the three soup.find calls select, 0 when none
AvailabilityMeta(d) ==
    LET a == First({x \in DOMAIN d : IsMeta(d[x], "og:availability")})
        b == First({x \in DOMAIN d : IsMeta(d[x], "product:availability")})
        c == First({x \in DOMAIN d : d[x].tag = "meta" /\ HasAttr(d[x], "name")
                                        /\ Attr(d[x], "name") = "availability"})
    IN  IF a # 0 THEN a ELSE IF b # 0 THEN b ELSE c

\* the verdict of strategy 1 on the lowercased content
MetaVerdict(content) ==
    IF AnyIn(InStockWords, content) THEN Return(Bool(TRUE))
    ELSE IF AnyIn(OutOfStockWords, content) THEN Return(Bool(FALSE))
    ELSE Fall

\* _find_stock, strategy 1: OpenGraph / meta tags
StockMeta(d) ==
    LET i == AvailabilityMeta(d)
    IN  IF i # 0 /\ AttrOr(d[i], "content") # ""
        THEN MetaVerdict(Lower(Attr(d[i], "content")))
        ELSE Fall

\* check_schema_stock(obj)
CheckSchemaStock(obj) ==
    IF obj.j = "dict"
    THEN LET avail == JGet(obj, "availability")
         IN  IF avail.j = "str"
             THEN IF Contains(avail.s, "InStock") THEN Bool(TRUE)
                  ELSE IF Contains(avail.s, "OutOfStock") THEN Bool(FALSE)
                  ELSE None
             ELSE None
    ELSE None

\* res = ...; if res is not None: return res
ReturnIfNotNone(res) == IF res # None THEN Return(res) ELSE Fall

\* offers if isinstance(offers, dict) else (offers[0] if offers else {})
FirstOffer(offers) ==
    IF offers.j = "dict" THEN offers
    ELSE IF Len(offers.items) > 0 THEN offers.items[1]
    ELSE JDict(<<>>)

\* _find_stock, strategy 2, the body of the try for a block that is a dict
LdStockDict(data) ==
    IF JGet(data, "@type") = JStr("Product")
    THEN LET offers == JGet(data, "offers")
         IN  IF offers.j \in {"dict", "list"}
             THEN ReturnIfNotNone(CheckSchemaStock(FirstOffer(offers)))
             ELSE Fall
    ELSE Fall

\* _find_stock, strategy 2, one item of a block that is a list
LdStockItem(item) ==
    IF item.j = "dict" /\ JGet(item, "@type") = JStr("Product")
    THEN ReturnIfNotNone(CheckSchemaStock(JGet(item, "offers")))
    ELSE Fall

RECURSIVE LdStockList(_)
\* _find_stock, strategy 2, the body of the try for a block that is a list
LdStockList(items) ==
    IF items = <<>> THEN Fall
    ELSE LET r == LdStockItem(Head(items))
         IN  IF r.out = "return" THEN r ELSE LdStockList(Tail(items))

\* _find_stock, strategy 2, the body of the try for one script block
LdStockTry(data) ==
    CASE data.j = "malformed" -> Throw     \* json.loads raises
      [] data.j = "dict"      -> LdStockDict(data)
      [] data.j = "list"      -> LdStockList(data.items)
      [] OTHER                -> Fall

\* LdStockBlock without the except clause
LdStockBlock_NoExcept(data) == LdStockTry(data)

\* _find_stock, strategy 2, one script block: try ... except: continue
LdStockBlock(data) ==
    LET r == LdStockTry(data) IN IF r.out = "throw" THEN Fall ELSE r

RECURSIVE LdStockScripts(_)
LdStockScripts(scripts) ==
    IF scripts = <<>> THEN Fall
    ELSE LET r == LdStockBlock(Head(scripts).json)
         IN  IF r.out = "fall" THEN LdStockScripts(Tail(scripts)) ELSE r

\* _find_stock, strategy 2: Schema.org JSON-LD
StockJsonLd(d) == LdStockScripts(SelectSeq(d, IsLdJson))

OutOfStockPatterns ==
    {"esgotado", "indispon^vel", "indisponivel", "fora de stock",
     "out of stock", "sold out", "not available", "indisponibile",
     "encomenda especial", "feito por encomenda", "avisar-me",
     "order from supplier", "encomenda a fornecedor", "product-unavailable"}

RECURSIVE WordCount(_)
\* len(text.split())
WordCount(text) ==
    LET t == Strip(text)
    IN  IF t = "" THEN 0
        ELSE IF \E i \in 1..Len(t) : CharAt(t, i) = " "
             THEN 1 + WordCount(SubSeq(t, (CHOOSE i \in 1..Len(t) :
                          CharAt(t, i) = " " /\ \A k \in 1..(i - 1) : CharAt(t, k) # " "),
                          Len(t)))
             ELSE 1

StatusTags == {"span", "div", "p", "button", "a"}

ShortLabelWords == 10

\* an element strategy 3 reads as an out-of-stock status label
IsOutOfStockLabel(e) ==
    /\ e.tag \in StatusTags
    /\ AnyIn(OutOfStockPatterns, Lower(GetTextStrip(e)))
    /\ WordCount(Lower(GetTextStrip(e))) < ShortLabelWords

\* _find_stock, strategy 3: out-of-stock keywords in the page text
StockLabels(d) ==
    IF \E i \in 1..Len(d) : IsOutOfStockLabel(d[i]) THEN Return(Bool(FALSE))
    ELSE IF AnyIn({"indispon^vel online", "stock esgotado"}, Lower(GetText(d)))
         THEN Return(Bool(FALSE))
    ELSE Fall

CartPatterns ==
    {"comprar", "carrinho", "cesto", "adicionar", "add to cart", "buy",
     "purchase", "encomendar"}

\* soup.find_all(['button', 'input', 'a'], string=re.compile(cart_patterns, re.IGNORECASE))
IsCartButton(e) ==
    /\ e.tag \in {"button", "input", "a"}
    /\ e.text # ""
    /\ AnyIn(CartPatterns, Lower(e.text))

\* the button is skipped by the loop over cart_buttons
IsDisabled(btn) ==
    \/ HasAttr(btn, "disabled")
    \/ Contains(Lower(AttrOr(btn, "class")), "disabled")
    \/ (HasAttr(btn, "aria-disabled") /\ Attr(btn, "aria-disabled") = "true")
    \/ HasAttr(btn, "hidden")

\* strategy 4 with True returned when no buying button is found
StockCart_DefaultTrue(d) ==
    LET cart_buttons == SelectSeq(d, IsCartButton)
    IN  IF \E i \in 1..Len(cart_buttons) : ~IsDisabled(cart_buttons[i])
        THEN Return(Bool(TRUE))
        ELSE Return(Bool(TRUE))

\* _find_stock, strategy 4 and the final return
StockCart(d) ==
    LET cart_buttons == SelectSeq(d, IsCartButton)
    IN  IF \E i \in 1..Len(cart_buttons) : ~IsDisabled(cart_buttons[i])
        THEN Return(Bool(TRUE))
        ELSE Return(Bool(Len(cart_buttons) > 0))

\* StockStrategy with the purchase-control check ahead of the label scan
StockStrategy_CartFirst(n, d) ==
    CASE n = 1 -> StockMeta(d)
      [] n = 2 -> StockJsonLd(d)
      [] n = 3 -> IF \E i \in 1..Len(d) : IsCartButton(d[i]) /\ ~IsDisabled(d[i])
                  THEN Return(Bool(TRUE)) ELSE Fall
      [] n = 4 -> IF StockLabels(d) = Fall THEN StockCart(d) ELSE StockLabels(d)

\* StockStrategy with the JSON-LD check ahead of the meta check
StockStrategy_JsonLdFirst(n, d) ==
    CASE n = 1 -> StockJsonLd(d)
      [] n = 2 -> StockMeta(d)
      [] n = 3 -> StockLabels(d)
      [] n = 4 -> StockCart(d)

\* the strategies of _find_stock in the order the code runs them
StockStrategy(n, d) ==
    CASE n = 1 -> StockMeta(d)
      [] n = 2 -> StockJsonLd(d)
      [] n = 3 -> StockLabels(d)
      [] n = 4 -> StockCart(d)

RECURSIVE StockCascade(_, _)
StockCascade(d, n) ==
    IF n > 4 THEN None
    ELSE LET r == StockStrategy(n, d)
         IN  CASE r.out = "return" -> r.val
               [] r.out = "throw"  -> Raised
               [] OTHER            -> StockCascade(d, n + 1)

\* GenericScraper._find_stock
FindStock(d) == StockCascade(d, 1)

----------------------------------------------------------------------------
(* Name locator and the record *)

PyStr(s) == [py |-> "str", s |-> s]

\* GenericScraper._find_name
FindName(d) ==
    LET m == First({x \in DOMAIN d : IsMeta(d[x], "og:title")})
        h == First({x \in DOMAIN d : d[x].tag = "h1"})
        t == First({x \in DOMAIN d : d[x].tag = "title"})
    IN  IF m # 0 THEN (IF HasAttr(d[m], "content") THEN PyStr(Attr(d[m], "content")) ELSE None)
        ELSE IF h # 0 THEN PyStr(GetTextStrip(d[h]))
        ELSE IF t # 0 THEN PyStr(GetTextStrip(d[t]))
        ELSE None

\* the default applied with `is None` instead of `or`
NameOrUnknown_NoneOnly(n) ==
    IF n # None THEN n ELSE PyStr("Unknown Product")

\* name or "Unknown Product"
NameOrUnknown(n) ==
    IF n # None /\ n.s # "" THEN n ELSE PyStr("Unknown Product")

\* the record built only when a name was found as well
Record_NeedsName(p, n, s, u) ==
    IF Raised \in {p, s} \/ n = None THEN None
    ELSE IF p # None /\ Positive(p)
         THEN [py |-> "dict", price |-> p, product_name |-> NameOrUnknown(n),
               url |-> u, currency |-> "EUR", in_stock |-> s]
         ELSE None

\* GenericScraper.scrape, from `if price:` on: the record, or None; an
\* exception of a locator is caught by the except of scrape
Record(p, n, s, u) ==
    IF Raised \in {p, s} THEN None
    ELSE IF p # None /\ Positive(p)
         THEN [py |-> "dict", price |-> p, product_name |-> NameOrUnknown(n),
               url |-> u, currency |-> "EUR", in_stock |-> s]
         ELSE None

\* the outcomes of requests.get and raise_for_status
FetchOutcomes == {"ok", "http_error", "network_error"}

\* GenericScraper.scrape, the body of the try: the fetch or a locator raises,
\* or the record or None is returned
ScrapeTry(resp, p, n, s, u) ==
    IF resp # "ok" \/ Raised \in {p, n, s} THEN Throw
    ELSE Return(Record(p, n, s, u))

\* the try of scrape without its except: the exception leaves scrape
ScrapeBlock_NoExcept(resp, p, n, s, u) ==
    LET r == ScrapeTry(resp, p, n, s, u)
    IN  IF r.out = "throw" THEN Raised ELSE r.val

\* GenericScraper.scrape: `except Exception` logs and returns None
ScrapeBlock(resp, p, n, s, u) ==
    LET r == ScrapeTry(resp, p, n, s, u)
    IN  IF r.out = "throw" THEN None ELSE r.val

----------------------------------------------------------------------------
(* Inputs *)

Alphabet == {"0", "1", "9", ".", ",", "R"}

RECURSIVE Strs(_)
\* the texts over Alphabet of length at most n
Strs(n) ==
    IF n = 0 THEN {""}
    ELSE Strs(n - 1) \cup {s \o c : s \in Strs(n - 1), c \in Alphabet}

ExampleTexts ==
    {"R$ 1.234,56", "abc", "99999,00", "0,00", "10000", "9999,99", "10.000",
     "1,234", "1.2.3", "1,2,3", "899.90", "19,99", "10000,00", "9.999,9"}

Texts == Strs(MaxLen) \cup ExampleTexts

\* the documents of at most n elements drawn from elems
Docs(elems, n) == UNION {[1..k -> elems] : k \in 0..n}

NoAttrs == {}

Meta(prop, content) == Elem("meta", {<<"property", prop>>, <<"content", content>>}, "")

Product(offers) == JDict(("@type" :> JStr("Product")) @@ ("offers" :> offers))

Priced(amount) == JDict("price" :> JStr(amount))

PriceElems ==
    { Meta("product:price:amount", "19,99"),
      Meta("product:price:amount", "abc"),
      Elem("meta", {<<"property", "product:price:amount">>}, ""),
      Meta("og:price:amount", "99999,00"),
      Script(Malformed),
      Script(Product(Priced("899.90"))),
      Script(Product(JList(<<JDict("lowPrice" :> JNum("45"))>>))),
      Script(JList(<<JStr("x"), Product(Priced("77,10"))>>)),
      Script(JList(<<Product(JList(<<Priced("55")>>))>>)),
      Script(Product(Priced("0,00"))),
      Script(Product(JList(<<JStr("x")>>))),
      Script(JDict(("@type" :> JStr("WebSite")) @@ ("offers" :> Priced("66")))),
      Elem("div", {<<"data-price", "29,90">>}, ""),
      Elem("div", {<<"data-price", "">>, <<"data-product-price", "31">>}, ""),
      Elem("span", {<<"itemprop", "price">>}, " 12,50 "),
      Elem("span", {<<"class", "Product-Price">>}, "30,00"),
      Elem("div", {<<"id", "cost">>}, "abc"),
      Elem("li", NoAttrs, "@ 1.234,56"),
      Elem("li", NoAttrs, "15 EUR"),
      Elem("li", NoAttrs, "@5") }

Available(avail) == JDict("availability" :> JStr(avail))

StockElems ==
    { Meta("og:availability", "instock"),
      Meta("og:availability", "Out of Stock"),
      Meta("product:availability", "unavailable"),
      Elem("meta", {<<"name", "availability">>, <<"content", "preorder">>}, ""),
      Elem("meta", {<<"property", "og:availability">>}, ""),
      Script(Malformed),
      Script(Product(Available("http://schema.org/InStock"))),
      Script(JList(<<JStr("x"), Product(Available("https://schema.org/OutOfStock"))>>)),
      Elem("span", NoAttrs, " Esgotado "),
      Elem("p", NoAttrs, "um dia fica esgotado e so ha mais em maio"),
      Elem("p", NoAttrs, "o stock esgotado so volta a loja la em maio"),
      Elem("h2", NoAttrs, "Indispon^vel online"),
      Elem("button", NoAttrs, "Comprar"),
      Elem("button", {<<"disabled", "">>}, "Comprar"),
      Elem("a", {<<"class", "btn Disabled">>}, "Add to cart"),
      Elem("button", {<<"aria-disabled", "true">>}, "Buy now"),
      Elem("a", {<<"hidden", "">>}, "Encomendar"),
      Elem("input", {<<"value", "Comprar">>}, "") }

Offer(amount, avail) ==
    JDict(("price" :> JStr(amount)) @@ ("availability" :> JStr(avail)))

LdElems ==
    { Script(Malformed),
      Script(JStr("x")),
      Script(Product(JList(<<JStr("x")>>))),
      Script(JDict("@type" :> JStr("WebSite"))),
      Script(Product(Offer("899.90", "http://schema.org/InStock"))),
      Script(Product(JList(<<Offer("45", "https://schema.org/OutOfStock")>>))),
      Script(JList(<<Product(Offer("77,10", "OutOfStock"))>>)),
      Script(JList(<<Product(JList(<<Offer("55", "InStock")>>))>>)),
      Elem("div", {<<"data-price", "29,90">>}, ""),
      Elem("span", {<<"class", "price">>}, "30,00"),
      Elem("button", NoAttrs, "Comprar"),
      Elem("button", {<<"disabled", "">>}, "Comprar"),
      Elem("span", NoAttrs, "Esgotado") }

\* loose page text: amounts next to a currency marker, and a labeled element
\* whose text does not normalize
CurrencyElems ==
    { Elem("li", NoAttrs, "@1.234,56 "),
      Elem("li", NoAttrs, "15 EUR "),
      Elem("li", NoAttrs, "@5 "),
      Elem("li", NoAttrs, "10@ "),
      Elem("li", NoAttrs, "EUR 20,5 "),
      Elem("li", NoAttrs, "99999 @ "),
      Elem("li", NoAttrs, "12,5 "),
      Elem("li", NoAttrs, "desde "),
      Elem("span", {<<"class", "price">>}, "abc ") }

\* elements labeled as prices by itemprop, class or id
LabelElems ==
    { Elem("span", {<<"itemprop", "price">>}, " 12,50 "),
      Elem("meta", {<<"itemprop", "price">>, <<"content", "13,00">>}, ""),
      Elem("span", {<<"itemprop", "price">>, <<"content", "14,00">>}, "abc"),
      Elem("span", {<<"class", "Product-Price">>}, "30,00"),
      Elem("div", {<<"id", "cost">>}, "45,00"),
      Elem("p", {<<"class", "valueBox">>}, "abc"),
      Elem("strong", {<<"class", "prix">>}, " 50 "),
      Elem("li", {<<"class", "price">>}, "60"),
      Elem("b", {<<"id", "preco-final">>, <<"class", "big value">>}, "70,5") }

\* name, price and stock signals of a product page
RecordElems ==
    { Meta("og:title", "Raquete X"),
      Meta("og:title", ""),
      Elem("meta", {<<"property", "og:title">>}, ""),
      Elem("h1", NoAttrs, " Raquete Y "),
      Elem("h1", NoAttrs, " "),
      Elem("title", NoAttrs, "Loja Z"),
      Meta("product:price:amount", "19,99"),
      Meta("og:price:amount", "abc"),
      Elem("div", {<<"data-price", "29,90">>}, ""),
      Script(Product(Offer("899.90", "http://schema.org/OutOfStock"))),
      Script(Malformed),
      Elem("button", NoAttrs, "Comprar"),
      Elem("span", NoAttrs, "Esgotado") }

----------------------------------------------------------------------------
(* The parts of the state an operation under study does not use *)

\* no single call of a locator is under way
LocatorIdle ==
    /\ doc = <<>> /\ arg = ""
    /\ call = "none" /\ ret = None
    /\ price = None /\ name = None /\ in_stock = None

\* scrape_all_stores has not been called
MonitorIdle ==
    /\ idx = 0 /\ step = "idle"
    /\ store_data = None /\ prices = <<>>
    /\ fetch = <<>> /\ calls = {}

\* no concurrent call of scrape has been started
ThreadsIdle ==
    /\ pc = <<>> /\ frame = <<>>
    /\ page = <<>> /\ result = <<>>

\* run_check has not been called: the history file is as _ensure_db_exists
\* creates it and no message has been built
CheckIdle ==
    /\ config = [products |-> <<>>]
    /\ current_prices = <<>> /\ previous_prices = None
    /\ opportunities = <<>>
    /\ db_file = [ok |-> TRUE, history |-> <<>>]
    /\ added = <<>> /\ mail = None
    /\ check_pc = "idle" /\ now = 0

----------------------------------------------------------------------------
(* The normalizer applied to a text *)

InitParse ==
    /\ doc = <<>>
    /\ arg \in Texts
    /\ call = "none"
    /\ ret = None
    /\ price = None /\ name = None /\ in_stock = None
    /\ MonitorIdle /\ ThreadsIdle /\ CheckIdle

CallParsePrice ==
    /\ call = "none"
    /\ call' = "parse_price"
    /\ ret' = ParsePrice(arg)
    /\ UNCHANGED <<doc, arg, locals, monitorVars, threadVars, checkVars>>

NextParse == CallParsePrice

SpecParse == InitParse /\ [][NextParse]_vars

----------------------------------------------------------------------------
(* The price locator applied to a document *)

PageUrl == "https://shop.example/p1"

InitPrice ==
    /\ \/ doc \in Docs(PriceElems, MaxElems) /\ arg = ""
       \/ doc = <<>> /\ arg \in Texts
    /\ call = "none"
    /\ ret = None
    /\ price = None /\ name = None /\ in_stock = None
    /\ MonitorIdle /\ ThreadsIdle /\ CheckIdle

CallFindPrice ==
    /\ call = "none"
    /\ call' = "find_price"
    /\ ret' = FindPrice(doc)
    /\ UNCHANGED <<doc, arg, locals, monitorVars, threadVars, checkVars>>

\* scrape(url): the fetch fails (the exception is caught and None returned)
\* or hands the document to the locators
CallScrape ==
    /\ call = "none"
    /\ call' = "scrape"
    /\ \E resp \in FetchOutcomes :
           /\ price' = IF resp = "ok" THEN FindPrice(doc) ELSE None
           /\ name' = IF resp = "ok" THEN FindName(doc) ELSE None
           /\ in_stock' = IF resp = "ok" THEN FindStock(doc) ELSE None
           /\ ret' = ScrapeBlock(resp, price', name', in_stock', PageUrl)
    /\ UNCHANGED <<doc, arg, monitorVars, threadVars, checkVars>>

NextPrice == CallParsePrice \/ CallFindPrice \/ CallScrape

SpecPrice == InitPrice /\ [][NextPrice]_vars

----------------------------------------------------------------------------
(* The price locator applied to a document of loose text *)

InitCurrency ==
    /\ doc \in Docs(CurrencyElems, MaxElems)
    /\ arg = ""
    /\ call = "none"
    /\ ret = None
    /\ price = None /\ name = None /\ in_stock = None
    /\ MonitorIdle /\ ThreadsIdle /\ CheckIdle

NextCurrency == CallFindPrice

SpecCurrency == InitCurrency /\ [][NextCurrency]_vars

----------------------------------------------------------------------------
(* The price locator applied to a document of labeled elements *)

InitLabel ==
    /\ doc \in Docs(LabelElems, MaxElems)
    /\ arg = ""
    /\ call = "none"
    /\ ret = None
    /\ price = None /\ name = None /\ in_stock = None
    /\ MonitorIdle /\ ThreadsIdle /\ CheckIdle

NextLabel == CallFindPrice

SpecLabel == InitLabel /\ [][NextLabel]_vars

----------------------------------------------------------------------------
(* The name locator and scrape applied to a product page *)

InitRecord ==
    /\ doc \in Docs(RecordElems, MaxElems)
    /\ arg = ""
    /\ call = "none"
    /\ ret = None
    /\ price = None /\ name = None /\ in_stock = None
    /\ MonitorIdle /\ ThreadsIdle /\ CheckIdle

CallFindName ==
    /\ call = "none"
    /\ call' = "find_name"
    /\ ret' = FindName(doc)
    /\ UNCHANGED <<doc, arg, locals, monitorVars, threadVars, checkVars>>

NextRecord == CallFindName \/ CallScrape

SpecRecord == InitRecord /\ [][NextRecord]_vars

----------------------------------------------------------------------------
(* The stock locator applied to a document *)

InitStock ==
    /\ doc \in Docs(StockElems, MaxElems)
    /\ arg = ""
    /\ call = "none"
    /\ ret = None
    /\ price = None /\ name = None /\ in_stock = None
    /\ MonitorIdle /\ ThreadsIdle /\ CheckIdle

CallFindStock ==
    /\ call = "none"
    /\ call' = "find_stock"
    /\ ret' = FindStock(doc)
    /\ UNCHANGED <<doc, arg, locals, monitorVars, threadVars, checkVars>>

NextStock == CallFindStock

SpecStock == InitStock /\ [][NextStock]_vars

----------------------------------------------------------------------------
(* Both locators applied to a document with JSON-LD blocks *)

InitLd ==
    /\ doc \in Docs(LdElems, MaxElems)
    /\ arg = ""
    /\ call = "none"
    /\ ret = None
    /\ price = None /\ name = None /\ in_stock = None
    /\ MonitorIdle /\ ThreadsIdle /\ CheckIdle

NextLd == CallFindPrice \/ CallFindStock

SpecLd == InitLd /\ [][NextLd]_vars

----------------------------------------------------------------------------
(* The monitor: scrape_all_stores of src/price_monitor.py *)

\* the products of the configuration (config.yaml)
ConfigProduct(i) ==
    [name  |-> PyStr("Produto " \o ToString(i)),
     url   |-> "https://shop.example/p" \o ToString(i),
     store |-> "Loja " \o ToString(i)]

Products == [i \in 1..MaxProducts |-> ConfigProduct(i)]

\* the pages a store may serve, before or after rendering
MonitorDocs ==
    { <<>>,
      <<Meta("product:price:amount", "19,99"), Meta("og:title", "Raquete X"),
        Elem("button", NoAttrs, "Comprar")>>,
      <<Elem("div", {<<"data-price", "29,90">>}, "")>>,
      <<Meta("og:price:amount", "abc"), Elem("h1", NoAttrs, "Raquete Y")>> }

\* the outcomes of SeleniumScraper: the page is rendered, the driver raises
\* inside scrape, or the import or the constructor raises
SeleniumOutcomes == {"ok", "driver_error", "setup_error"}

\* SeleniumScraper.scrape, from `if price:` on: a record without in_stock
SeleniumRecord(p, n, u) ==
    IF p # None /\ p # Raised /\ n # Raised /\ Positive(p)
    THEN [py |-> "dict", price |-> p, product_name |-> NameOrUnknown(n),
          url |-> u, currency |-> "EUR"]
    ELSE None

\* scrape_selenium(url)
ScrapeSelenium(outcome, d, u) ==
    CASE outcome = "setup_error"  -> Raised
      [] outcome = "driver_error" -> None
      [] OTHER                    -> SeleniumRecord(FindPrice(d), FindName(d), u)

\* an invocation of the engine (the locators) or of Selenium for product i
EngineCall(i, r) == [product |-> i, call |-> "engine", null |-> (r = None)]
SeleniumCall(i) == [product |-> i, call |-> "selenium"]

\* the record as appended to prices: the configured name replaces the
\* default one and the store is added
Collected(d, p) ==
    [d EXCEPT !.product_name = IF @ = PyStr("Unknown Product") THEN p.name ELSE @]
        @@ ("store" :> p.store)

InitMonitor == LocatorIdle /\ MonitorIdle /\ ThreadsIdle /\ CheckIdle

\* scrape_all_stores is called: prices = [] and the loop starts
MonitorBegin ==
    /\ step = "idle"
    /\ idx' = 1
    /\ step' = IF Len(Products) >= 1 THEN "generic" ELSE "done"
    /\ prices' = <<>>
    /\ UNCHANGED <<doc, arg, call, ret, locals, store_data, fetch, calls, threadVars, checkVars>>

\* data = scrape_generic(url)
MonitorGeneric ==
    /\ step = "generic"
    /\ \E resp \in FetchOutcomes, d \in MonitorDocs :
           /\ doc' = IF resp = "ok" THEN d ELSE <<>>
           /\ price' = IF resp = "ok" THEN FindPrice(d) ELSE None
           /\ name' = IF resp = "ok" THEN FindName(d) ELSE None
           /\ in_stock' = IF resp = "ok" THEN FindStock(d) ELSE None
           /\ store_data' = ScrapeBlock(resp, price', name', in_stock', Products[idx].url)
           /\ fetch' = Append(fetch, resp)
           /\ calls' = IF resp = "ok" THEN calls \cup {EngineCall(idx, store_data')}
                       ELSE calls
    /\ step' = IF store_data' = None THEN "fallback" ELSE "collect"
    /\ UNCHANGED <<arg, call, ret, idx, prices, threadVars, checkVars>>

\* if not data: data = scrape_selenium(url)
MonitorFallback ==
    /\ step = "fallback"
    /\ \E outcome \in SeleniumOutcomes, d \in MonitorDocs :
           /\ doc' = IF outcome = "ok" THEN d ELSE doc
           /\ store_data' = ScrapeSelenium(outcome, d, Products[idx].url)
    /\ calls' = calls \cup {SeleniumCall(idx)}
    /\ step' = "collect"
    /\ UNCHANGED <<arg, call, ret, locals, idx, prices, fetch, threadVars, checkVars>>

\* if data: ... prices.append(data); else and except: the product is logged
\* and skipped; then the loop moves on
MonitorCollect ==
    /\ step = "collect"
    /\ prices' = IF store_data \notin {None, Raised}
                 THEN Append(prices, Collected(store_data, Products[idx]))
                 ELSE prices
    /\ idx' = idx + 1
    /\ step' = IF idx + 1 > Len(Products) THEN "done" ELSE "generic"
    /\ UNCHANGED <<doc, arg, call, ret, locals, store_data, fetch, calls, threadVars, checkVars>>

NextMonitor == MonitorBegin \/ MonitorGeneric \/ MonitorFallback \/ MonitorCollect

SpecMonitor == InitMonitor /\ [][NextMonitor]_vars

----------------------------------------------------------------------------
(* Concurrent calls of scrape_generic, one per thread: each call creates    *)
(* its own GenericScraper and runs scrape, whose locals live in the call's  *)
(* own frame.  A step is the fetch, one locator call, or the return.        *)

Threads == 1..MaxThreads

\* every call writing its locals to one shared place (attributes of a
\* scraper object shared by the threads)
Slot_Shared(t) == 1

\* the frame that holds the locals of the call of thread t
Slot(t) == t

NoFrame == [soup |-> <<>>, price |-> None, name |-> None, in_stock |-> None]

NoPage == [resp |-> "none", doc |-> <<>>]

InitThreads ==
    /\ LocatorIdle /\ MonitorIdle /\ CheckIdle
    /\ pc = [t \in Threads |-> "start"]
    /\ frame = [t \in Threads |-> NoFrame]
    /\ page = [t \in Threads |-> NoPage]
    /\ result = [t \in Threads |-> None]

\* requests.get, raise_for_status and BeautifulSoup(response.content)
ThreadFetch(t) ==
    /\ pc[t] = "start"
    /\ \E resp \in FetchOutcomes, d \in MonitorDocs :
           /\ page' = [page EXCEPT ![t] = [resp |-> resp, doc |-> d]]
           /\ IF resp = "ok"
              THEN /\ frame' = [frame EXCEPT ![Slot(t)].soup = d]
                   /\ pc' = [pc EXCEPT ![t] = "price"]
                   /\ UNCHANGED result
              ELSE /\ result' = [result EXCEPT ![t] =
                                     ScrapeBlock(resp, None, None, None, ConfigProduct(t).url)]
                   /\ pc' = [pc EXCEPT ![t] = "done"]
                   /\ UNCHANGED frame
    /\ UNCHANGED <<doc, arg, call, ret, locals, monitorVars, checkVars>>

\* price = self._find_price(soup)
ThreadPrice(t) ==
    /\ pc[t] = "price"
    /\ frame' = [frame EXCEPT ![Slot(t)].price = FindPrice(frame[Slot(t)].soup)]
    /\ pc' = [pc EXCEPT ![t] = "name"]
    /\ UNCHANGED <<doc, arg, call, ret, locals, monitorVars, checkVars, page, result>>

\* name = self._find_name(soup)
ThreadName(t) ==
    /\ pc[t] = "name"
    /\ frame' = [frame EXCEPT ![Slot(t)].name = FindName(frame[Slot(t)].soup)]
    /\ pc' = [pc EXCEPT ![t] = "stock"]
    /\ UNCHANGED <<doc, arg, call, ret, locals, monitorVars, checkVars, page, result>>

\* in_stock = self._find_stock(soup)
ThreadStock(t) ==
    /\ pc[t] = "stock"
    /\ frame' = [frame EXCEPT ![Slot(t)].in_stock = FindStock(frame[Slot(t)].soup)]
    /\ pc' = [pc EXCEPT ![t] = "return"]
    /\ UNCHANGED <<doc, arg, call, ret, locals, monitorVars, checkVars, page, result>>

\* if price: return {...}; return None
ThreadReturn(t) ==
    /\ pc[t] = "return"
    /\ result' = [result EXCEPT ![t] =
                      ScrapeBlock("ok", frame[Slot(t)].price, frame[Slot(t)].name,
                                  frame[Slot(t)].in_stock, ConfigProduct(t).url)]
    /\ pc' = [pc EXCEPT ![t] = "done"]
    /\ UNCHANGED <<doc, arg, call, ret, locals, monitorVars, checkVars, page, frame>>

NextThreads ==
    \E t \in Threads :
        \/ ThreadFetch(t)
        \/ ThreadPrice(t)
        \/ ThreadName(t)
        \/ ThreadStock(t)
        \/ ThreadReturn(t)

SpecThreads == InitThreads /\ [][NextThreads]_vars

----------------------------------------------------------------------------
(* The history file of PriceDatabase (src/database.py) *)

\* the file as _ensure_db_exists creates it
NewFile == [ok |-> TRUE, history |-> <<>>]

\* a file json.load cannot read: what a write that fails after
\* open(db_file, 'w') leaves behind
BrokenFile == [ok |-> FALSE, history |-> <<>>]

\* open and json.load succeed, or one of them raises
LoadOutcomes == {"ok", "error"}

\* open and json.dump succeed, open raises, or json.dump raises after the
\* file has been opened for writing
SaveOutcomes == {"ok", "open_error", "write_error"}

\* PriceDatabase._load_data: the history of the dictionary it returns
LoadData(file, load) ==
    IF load = "ok" /\ file.ok THEN file.history ELSE <<>>

\* PriceDatabase._save_data: the file afterwards
SaveData(file, history, save) ==
    CASE save = "ok"          -> [ok |-> TRUE, history |-> history]
      [] save = "write_error" -> BrokenFile
      [] OTHER                -> file

\* the entry add_price_check builds
Entry(t, ps) == [timestamp |-> t, prices |-> ps]

\* PriceDatabase.add_price_check: the file afterwards
AddPriceCheck(file, ps, t, load, save) ==
    SaveData(file, Append(LoadData(file, load), Entry(t, ps)), save)

\* PriceDatabase.get_latest_prices
GetLatestPrices(file, load) ==
    LET history == LoadData(file, load)
    IN  IF history = <<>> THEN None ELSE history[Len(history)]

\* a record of the generic scraper and one of the Selenium fallback, as
\* scrape_all_stores collects them for product i
GenericSample(i, p, s) ==
    Collected(Record(p, PyStr("Raquete X"), Bool(s), Products[i].url), Products[i])

SeleniumSample(i, p) ==
    Collected(SeleniumRecord(p, None, Products[i].url), Products[i])

\* lists scrape_all_stores can return
ScrapedLists ==
    { <<>>,
      <<GenericSample(1, Float(1999, 2), TRUE)>>,
      <<SeleniumSample(1, Float(299, 1))>>,
      <<GenericSample(1, Float(1999, 2), FALSE), SeleniumSample(2, Float(299, 1))>> }

InitDb == LocatorIdle /\ MonitorIdle /\ ThreadsIdle /\ CheckIdle

\* db.add_price_check(prices)
DbAdd ==
    /\ now < MaxChecks
    /\ \E ps \in ScrapedLists, load \in LoadOutcomes, save \in SaveOutcomes :
           /\ db_file' = AddPriceCheck(db_file, ps, now + 1, load, save)
           /\ added' = Append(added, Entry(now + 1, ps))
    /\ now' = now + 1
    /\ call' = "add_price_check"
    /\ ret' = None
    /\ UNCHANGED <<doc, arg, locals, monitorVars, threadVars, config, current_prices,
                   previous_prices, opportunities, mail, check_pc>>

\* db.get_latest_prices()
DbGetLatest ==
    /\ \E load \in LoadOutcomes : ret' = GetLatestPrices(db_file, load)
    /\ call' = "get_latest_prices"
    /\ UNCHANGED <<doc, arg, locals, monitorVars, threadVars, checkVars>>

NextDb == DbAdd \/ DbGetLatest

SpecDb == InitDb /\ [][NextDb]_vars

----------------------------------------------------------------------------
(* check_opportunities (src/price_monitor.py) *)

\* self.config.get('default_alert', {'type': 'threshold', 'max_price': 600.0})
DefaultAlert(cfg) ==
    IF "default_alert" \in DOMAIN cfg THEN cfg.default_alert
    ELSE [type |-> "threshold", max_price |-> 600]

\* the loop that looks product_cfg up: the first configured product of the
\* store, 0 when there is none
ProductCfg(cfg, store) ==
    First({i \in DOMAIN cfg.products : cfg.products[i].store = store})

\* max_price as check_opportunities computes it for a record of the store
MaxPriceFor(cfg, store) ==
    LET i == ProductCfg(cfg, store)
    IN  IF i # 0 /\ "max_price" \in DOMAIN cfg.products[i]
        THEN cfg.products[i].max_price
        ELSE DefaultAlert(cfg).max_price

\* not skipped by `if not current_price` and current_price <= max_price
IsOpportunity(cfg, price_data) ==
    /\ price_data.price # None
    /\ price_data.price.m # 0
    /\ ~Above(price_data.price, MaxPriceFor(cfg, price_data.store))

\* opportunity = price_data.copy() with the reason; the reason text is the
\* pair of the two numbers it is formatted from
Opportunity(cfg, price_data) ==
    price_data @@ ("reason" :> [price  |-> price_data.price,
                                target |-> MaxPriceFor(cfg, price_data.store)])

\* PriceMonitor.check_opportunities
CheckOpportunities(cfg, current) ==
    LET hits == SelectSeq(current, LAMBDA price_data : IsOpportunity(cfg, price_data))
    IN  [i \in DOMAIN hits |-> Opportunity(cfg, hits[i])]

\* store names and thresholds of the configurations enumerated; 0 stands
\* for a product without max_price
Stores == {"Loja 1", "Loja 2"}
MaxPrices == {0, 100, 500}

\* product i of a configuration
OppProduct(i, store, max_price) ==
    LET p == [ConfigProduct(i) EXCEPT !.store = store]
    IN  IF max_price = 0 THEN p ELSE p @@ ("max_price" :> max_price)

\* configurations: every product has its url, a store and maybe a
\* max_price; default_alert is given or not
OppConfigs ==
    LET lists == {[i \in 1..MaxProducts |-> OppProduct(i, st[i], mp[i])] :
                     st \in [1..MaxProducts -> Stores],
                     mp \in [1..MaxProducts -> MaxPrices]}
    IN  {[products |-> ps] : ps \in lists}
        \cup {[products |-> ps,
                default_alert |-> [type |-> "threshold", max_price |-> 300]] :
                    ps \in lists}

\* the price scraped for a product, None when the product gave no record
PriceChoices == {None, Float(50, 0), Float(300, 0), Float(700, 0)}

\* the list scrape_all_stores returns when product i gave the price ch[i]
Scraped(products, ch) ==
    LET all == [i \in DOMAIN products |->
                   IF ch[i] = None THEN None
                   ELSE Collected(Record(ch[i], None, Bool(TRUE), products[i].url),
                                  products[i])]
    IN  SelectSeq(all, LAMBDA r : r # None)

InitOpp ==
    /\ LocatorIdle /\ MonitorIdle /\ ThreadsIdle
    /\ config \in OppConfigs
    /\ current_prices \in {Scraped(config.products, ch) :
                               ch \in [DOMAIN config.products -> PriceChoices]}
    /\ previous_prices = None
    /\ opportunities = <<>>
    /\ db_file = NewFile
    /\ added = <<>> /\ mail = None
    /\ check_pc = "idle" /\ now = 0

\* opportunities = self.check_opportunities(current_prices, previous_prices)
CallCheckOpportunities ==
    /\ call = "none"
    /\ call' = "check_opportunities"
    /\ opportunities' = CheckOpportunities(config, current_prices)
    /\ UNCHANGED <<doc, arg, ret, locals, monitorVars, threadVars, config,
                   current_prices, previous_prices, db_file, added, mail, check_pc,
                   now>>

NextOpp == CallCheckOpportunities

SpecOpp == InitOpp /\ [][NextOpp]_vars

----------------------------------------------------------------------------
(* send_price_alert (src/notifier.py) and run_check (src/price_monitor.py) *)

\* the stock status of the plain-text part: opp.get('in_stock')
TextStock(opp) ==
    IF "in_stock" \in DOMAIN opp /\ opp.in_stock = Bool(TRUE)
    THEN "Em estoque" ELSE "Esgotado"

\* the stock status of the HTML part: opp.get('in_stock', True); the
\* pictograph in front of the label is left out
HtmlStock(opp) ==
    IF "in_stock" \notin DOMAIN opp \/ opp.in_stock = Bool(TRUE)
    THEN "Em estoque" ELSE "Esgotado"

\* the SMTP session succeeds or raises
SmtpOutcomes == {"ok", "error"}

\* EmailNotifier.send_price_alert: the message built, per opportunity the
\* lines of the two parts, and whether it was sent; None when there is
\* nothing to notify
SendPriceAlert(opps, previous, smtp) ==
    IF opps = <<>> THEN None
    ELSE [text |-> [i \in DOMAIN opps |->
                       [store |-> opps[i].store, price |-> opps[i].price,
                        stock |-> TextStock(opps[i])]],
          html |-> [i \in DOMAIN opps |->
                       [store |-> opps[i].store, price |-> opps[i].price,
                        stock |-> HtmlStock(opps[i])]],
          previous |-> previous,
          sent |-> (smtp = "ok")]

\* the configurations of the monitor: the products, without or with a
\* max_price
CheckConfigs ==
    { [products |-> Products],
      [products |-> [i \in DOMAIN Products |-> Products[i] @@ ("max_price" :> 25)]] }

InitCheck ==
    /\ LocatorIdle /\ MonitorIdle /\ ThreadsIdle
    /\ config \in CheckConfigs
    /\ current_prices = <<>> /\ previous_prices = None
    /\ opportunities = <<>>
    /\ db_file = NewFile
    /\ added = <<>> /\ mail = None
    /\ check_pc = "idle" /\ now = 0

\* current_prices = self.scrape_all_stores(); if not current_prices: return
CheckScrape ==
    /\ check_pc = "idle"
    /\ now < MaxChecks
    /\ current_prices' \in ScrapedLists
    /\ previous_prices' = None
    /\ opportunities' = <<>>
    /\ mail' = None
    /\ check_pc' = IF current_prices' = <<>> THEN "idle" ELSE "previous"
    /\ UNCHANGED <<doc, arg, call, ret, locals, monitorVars, threadVars, config,
                   db_file, added, now>>

\* previous_prices = self.db.get_latest_prices()
CheckPrevious ==
    /\ check_pc = "previous"
    /\ \E load \in LoadOutcomes :
           previous_prices' = GetLatestPrices(db_file, load)
    /\ check_pc' = "append"
    /\ UNCHANGED <<doc, arg, call, ret, locals, monitorVars, threadVars, config,
                   current_prices, opportunities, db_file, added, mail, now>>

\* self.db.add_price_check(current_prices)
CheckAppend ==
    /\ check_pc = "append"
    /\ \E load \in LoadOutcomes, save \in SaveOutcomes :
           db_file' = AddPriceCheck(db_file, current_prices, now + 1, load, save)
    /\ added' = Append(added, Entry(now + 1, current_prices))
    /\ now' = now + 1
    /\ check_pc' = "evaluate"
    /\ UNCHANGED <<doc, arg, call, ret, locals, monitorVars, threadVars, config,
                   current_prices, previous_prices, opportunities, mail>>

\* opportunities = self.check_opportunities(current_prices, previous_prices)
CheckEvaluate ==
    /\ check_pc = "evaluate"
    /\ opportunities' = CheckOpportunities(config, current_prices)
    /\ check_pc' = IF opportunities' = <<>> THEN "idle" ELSE "notify"
    /\ UNCHANGED <<doc, arg, call, ret, locals, monitorVars, threadVars, config,
                   current_prices, previous_prices, db_file, added, mail, now>>

\* self.notifier.send_price_alert(opportunities, previous_prices)
CheckNotify ==
    /\ check_pc = "notify"
    /\ \E smtp \in SmtpOutcomes :
           mail' = SendPriceAlert(opportunities, previous_prices, smtp)
    /\ check_pc' = "idle"
    /\ UNCHANGED <<doc, arg, call, ret, locals, monitorVars, threadVars, config,
                   current_prices, previous_prices, opportunities, db_file, added,
                   now>>

NextCheck ==
    CheckScrape \/ CheckPrevious \/ CheckAppend \/ CheckEvaluate \/ CheckNotify

SpecCheck == InitCheck /\ [][NextCheck]_vars

----------------------------------------------------------------------------
(* Properties of the price locator *)

InSanityRange(v) == v.py = "float" /\ v.m > 0 /\ v.m < 10000 * Pow10(v.k)

\* C1: every non-null value _parse_price and _find_price return, and the
\* price of every record scrape returns, is strictly between 0 and 10000.
C1_PriceWithinSanityBounds ==
    /\ (call \in {"parse_price", "find_price"} /\ ret # None) => InSanityRange(ret)
    /\ (call = "scrape" /\ ret # None) => InSanityRange(ret.price)

\* a record is returned for a page whose price is above 1000
C1_RecordReturned ==
    call = "scrape" /\ ret # None /\ ret.price.m > 1000 * Pow10(ret.price.k)

\* strategy n found a candidate and survived normalization
Yields(n, d) == PriceStrategy(n, d).out = "return" /\ PriceStrategy(n, d).val # None

\* strategy n found a candidate and normalization rejected it
Rejected(n, d) == PriceStrategy(n, d) = Return(None)

RECURSIVE FirstYieldFrom(_, _)
\* the value of the first strategy from n on that yields, None when none does
FirstYieldFrom(d, n) ==
    IF n > 5 THEN None
    ELSE IF Yields(n, d) THEN PriceStrategy(n, d).val
    ELSE FirstYieldFrom(d, n + 1)

\* C2: when the candidate of the price meta tag, or of the first JSON-LD
\* Product offer, is rejected by normalization and a lower-priority strategy
\* has a valid price, _find_price returns that valid price and not null.
C2_CascadeContinuesAfterRejection ==
    call = "find_price" =>
        \A n \in {1, 2} :
            ( /\ \A m \in 1..(n - 1) : PriceStrategy(m, doc) = Fall
              /\ Rejected(n, doc)
              /\ FirstYieldFrom(doc, n + 1) # None )
            => ret = FirstYieldFrom(doc, n + 1)

\* C3: the result of _find_price is the value of the highest-priority
\* strategy (meta, JSON-LD, data attribute, labeled element, currency text)
\* that yields a normalizable in-range value, never that of a later one.
C3_PriorityOrder ==
    (call = "find_price" /\ FirstYieldFrom(doc, 1) # None)
        => ret = FirstYieldFrom(doc, 1)

----------------------------------------------------------------------------
(* Properties of the stock locator *)

\* a buy-verb control that the loop of strategy 4 does not discard
HasActiveControl(d) ==
    \E i \in 1..Len(d) : IsCartButton(d[i]) /\ ~IsDisabled(d[i])

\* C4: _find_stock returns False when none of strategies 1-4 resolves, in
\* particular when every buy-verb control of the page is discarded.
C4_DefaultIsFalse ==
    ( /\ call = "find_stock"
      /\ StockMeta(doc) = Fall
      /\ StockJsonLd(doc) = Fall
      /\ StockLabels(doc) = Fall
      /\ ~HasActiveControl(doc) )
    => ret = Bool(FALSE)

\* C5: _find_stock returns a boolean on every path: never None, never an
\* exception, whatever metas, JSON-LD blocks, labels and controls the
\* document holds.
C5_StockIsBoolean == call = "find_stock" => ret.py = "bool"

\* _find_stock has run on a document with a malformed JSON-LD block and a
\* block of an unexpected shape
C5_MalformedBlocksSeen ==
    /\ call = "find_stock"
    /\ \E i \in 1..Len(doc) : doc[i].json = Malformed
    /\ \E i \in 1..Len(doc) : doc[i].json.j = "list" /\ doc[i].json.items[1].j = "str"

\* the availability meta read by strategy 1 has a positive keyword
MetaSaysInStock(d) ==
    /\ AvailabilityMeta(d) # 0
    /\ AnyIn(InStockWords, Lower(AttrOr(d[AvailabilityMeta(d)], "content")))

\* C6: when the availability meta (the first og:availability, else the
\* first product:availability, else the first name=availability) has
\* content containing a positive keyword, _find_stock returns True whatever
\* the JSON-LD availability, the out-of-stock labels and the purchase
\* controls of the page.
C6_MetaShortCircuits ==
    (call = "find_stock" /\ MetaSaysInStock(doc)) => ret = Bool(TRUE)

\* the meta says in stock, the JSON-LD says out of stock, a label says sold
\* out and there is no purchase control
C6_MetaAgainstTheRest ==
    /\ call = "find_stock"
    /\ MetaSaysInStock(doc)
    /\ StockJsonLd(doc) = Return(Bool(FALSE))
    /\ StockLabels(doc) = Return(Bool(FALSE))
    /\ SelectSeq(doc, IsCartButton) = <<>>

----------------------------------------------------------------------------
(* Properties of the JSON-LD strategies *)

IsProduct(v) == v.j = "dict" /\ JGet(v, "@type") = JStr("Product")

\* the Product objects of a block: the block itself, or those of its list
ProductsOf(data) ==
    IF data.j = "list" THEN SelectSeq(data.items, IsProduct)
    ELSE IF IsProduct(data) THEN <<data>>
    ELSE <<>>

\* the offer of a Product: offers itself, or the first entry of the list
OfferOf(product) ==
    LET offers == JGet(product, "offers")
    IN  IF offers.j = "dict" THEN offers
        ELSE IF offers.j = "list" /\ Len(offers.items) > 0 /\ offers.items[1].j = "dict"
             THEN offers.items[1]
        ELSE JDict(<<>>)

RECURSIVE FirstAvailability(_)
\* the availability verdict of the first Product that has one
FirstAvailability(products) ==
    IF products = <<>> THEN None
    ELSE IF CheckSchemaStock(OfferOf(Head(products))) # None
         THEN CheckSchemaStock(OfferOf(Head(products)))
    ELSE FirstAvailability(Tail(products))

RECURSIVE FirstOfferPrice(_)
\* offers.price, else offers.lowPrice, of the first Product that has one
FirstOfferPrice(products) ==
    IF products = <<>> THEN JNone
    ELSE LET o == OfferOf(Head(products))
             v == PyOr(JGet(o, "price"), JGet(o, "lowPrice"))
         IN  IF Truthy(v) THEN v ELSE FirstOfferPrice(Tail(products))

\* the script blocks of the document, in order
LdBlocks(d) == SelectSeq(d, IsLdJson)

\* C7: strategy 2 of _find_stock reads the availability of Product.offers
\* in all four shapes (block object or list, offers object or list):
\* the first block with an InStock / OutOfStock offer decides the result.
C7_AvailabilityInEveryShape ==
    (call = "find_stock" /\ StockMeta(doc) = Fall) =>
        \A i \in 1..Len(LdBlocks(doc)) :
            ( /\ FirstAvailability(ProductsOf(LdBlocks(doc)[i].json)) # None
              /\ \A k \in 1..(i - 1) :
                     FirstAvailability(ProductsOf(LdBlocks(doc)[k].json)) = None )
            => ret = FirstAvailability(ProductsOf(LdBlocks(doc)[i].json))

\* C8: strategy 2 of _find_price reads offers.price (else offers.lowPrice)
\* in all four shapes (block object or list, offers object or list): the
\* first block with a priced offer decides the result.
C8_PriceInEveryShape ==
    (call = "find_price" /\ PriceMeta(doc) = Fall) =>
        \A i \in 1..Len(LdBlocks(doc)) :
            ( /\ FirstOfferPrice(ProductsOf(LdBlocks(doc)[i].json)) # JNone
              /\ \A k \in 1..(i - 1) :
                     FirstOfferPrice(ProductsOf(LdBlocks(doc)[k].json)) = JNone )
            => ret = ParsePrice(Str(FirstOfferPrice(ProductsOf(LdBlocks(doc)[i].json))))

\* a script block that fails to parse or has an unexpected shape: not an
\* object or a list, or a Product whose offers list does not hold objects
IsBrokenBlock(e) ==
    /\ IsLdJson(e)
    /\ \/ e.json.j \notin {"dict", "list"}
       \/ /\ IsProduct(e.json)
          /\ JGet(e.json, "offers").j = "list"
          /\ Len(JGet(e.json, "offers").items) > 0
          /\ JGet(e.json, "offers").items[1].j # "dict"

\* the document without its i-th element
RemoveAt(d, i) == SubSeq(d, 1, i - 1) \o SubSeq(d, i + 1, Len(d))

\* C9: a JSON-LD block that fails to parse, or has an unexpected shape, is
\* skipped by _find_price and by _find_stock: no error surfaces and the
\* result is that of the same document without the block.
C9_BrokenBlockSkipped ==
    /\ call = "find_price" =>
           /\ ret # Raised
           /\ \A i \in 1..Len(doc) :
                  IsBrokenBlock(doc[i]) => ret = FindPrice(RemoveAt(doc, i))
    /\ call = "find_stock" =>
           /\ ret # Raised
           /\ \A i \in 1..Len(doc) :
                  IsBrokenBlock(doc[i]) => ret = FindStock(RemoveAt(doc, i))

\* _find_price found the price of a later block after a malformed one
C9_PriceAfterMalformedBlock ==
    /\ call = "find_price"
    /\ Len(doc) >= 2
    /\ doc[1].json = Malformed
    /\ IsLdJson(doc[2]) /\ doc[2].json.j = "dict"
    /\ ret # None

----------------------------------------------------------------------------
(* Properties of the normalizer *)

\* the normalizer as specified: keep digits, '.' and ','; with a comma,
\* drop the dots and read the comma as the decimal point; otherwise read a
\* plain decimal; null when that fails or the value is <= 0 or >= 10000
RefNormalize(raw) ==
    LET c     == KeepChars(raw, Digits \cup {".", ","})
        sep   == IF CountChar(c, ",") > 0 THEN "," ELSE "."
        t     == IF sep = "," THEN KeepChars(c, Digits \cup {","}) ELSE c
        cut   == IF CountChar(t, sep) = 0 THEN Len(t) + 1
                 ELSE CHOOSE i \in 1..Len(t) : CharAt(t, i) = sep
        whole == SubSeq(t, 1, cut - 1)
        frac  == SubSeq(t, cut + 1, Len(t))
        v     == Normal(Float(DigitsToInt(whole) * Pow10(Len(frac)) + DigitsToInt(frac),
                              Len(frac)))
    IN  IF CountChar(t, sep) > 1 \/ (whole = "" /\ frac = "") THEN None
        ELSE IF v.m <= 0 \/ v.m >= 10000 * Pow10(v.k) THEN None
        ELSE v

\* C10: _parse_price equals the specified normalizer on every text; in
\* particular 'R$ 1.234,56' gives 1234.56 and 'abc', '99999,00' and '0,00'
\* give null.
C10_ParsePriceIsNormalizer ==
    call = "parse_price" =>
        /\ ret = RefNormalize(arg)
        /\ arg = "R$ 1.234,56" => ret = Float(123456, 2)
        /\ arg \in {"abc", "99999,00", "0,00"} => ret = None

\* _parse_price has read a price written with thousands dots and a comma
C10_EuropeanPriceParsed ==
    call = "parse_price" /\ arg = "R$ 1.234,56" /\ ret = Float(123456, 2)

----------------------------------------------------------------------------
(* Properties of the currency-pattern fallback *)

RECURSIVE LeadingSpans(_, _, _)
\* the amounts that follow mark in s, each with the index it starts at
LeadingSpans(s, mark, i) ==
    IF i > Len(s) THEN {}
    ELSE IF StartsAt(s, i, mark)
         THEN LET j == SkipSpace(s, i + Len(mark))
                  e == RunEnd(s, j)
              IN  IF e >= j
                  THEN {[at |-> j, text |-> SubSeq(s, j, e)]}
                           \cup LeadingSpans(s, mark, e + 1)
                  ELSE LeadingSpans(s, mark, i + 1)
         ELSE LeadingSpans(s, mark, i + 1)

RECURSIVE TrailingSpans(_, _, _)
\* the amounts that mark follows in s, each with the index it starts at
TrailingSpans(s, mark, i) ==
    IF i > Len(s) THEN {}
    ELSE IF CharAt(s, i) \in AmountChars
         THEN LET e == RunEnd(s, i)
                  j == SkipSpace(s, e + 1)
              IN  IF StartsAt(s, j, mark)
                  THEN {[at |-> i, text |-> SubSeq(s, i, e)]}
                           \cup TrailingSpans(s, mark, j + Len(mark))
                  ELSE TrailingSpans(s, mark, i + 1)
         ELSE TrailingSpans(s, mark, i + 1)

\* every amount of the page text that is adjacent to a currency marker
AdjacentAmounts(s) ==
    LeadingSpans(s, Euro, 1) \cup TrailingSpans(s, Euro, 1)
        \cup LeadingSpans(s, "EUR", 1) \cup TrailingSpans(s, "EUR", 1)

\* the normalized value of the text lies in the display band
InDisplayBand(text) ==
    LET val == ParsePrice(text)
    IN  val # None /\ Above(val, 10) /\ Below(val, 10000)

\* the values an in-band amount that comes first in the page text may have
FirstOnPage(s) ==
    LET good == {a \in AdjacentAmounts(s) : InDisplayBand(a.text)}
    IN  IF good = {} THEN {None}
        ELSE {ParsePrice(a.text) : a \in {b \in good : \A c \in good : b.at <= c.at}}

\* strategies 1 to 4 find no candidate that normalizes
OnlyCurrencyText(d) == \A n \in 1..4 : PriceStrategy(n, d) = Fall

\* C11 as stated: when strategies 1-4 yield nothing, _find_price returns the
\* first amount in page-text order, among all the matches adjacent to a
\* currency marker, whose value lies in the 10-10000 band, and null when no
\* match is in the band.
C11_FirstInPageOrder ==
    (call = "find_price" /\ OnlyCurrencyText(doc)) => ret \in FirstOnPage(GetText(doc))

\* the matches in the order the code examines them: pattern by pattern
MatchesInPatternOrder(s) ==
    LET m == CurrencyMatches(s) IN m[1] \o m[2] \o m[3] \o m[4]

\* C11 amended: when strategies 1-4 yield nothing, _find_price returns the
\* first amount whose value is strictly between 10 and 10000, taking the
\* patterns in their fixed order (leading euro sign, trailing euro sign,
\* leading EUR, trailing EUR) and page-text order within a pattern, and null
\* when no match is in the band.
C11_FirstInPatternOrder ==
    (call = "find_price" /\ OnlyCurrencyText(doc)) =>
        LET all  == MatchesInPatternOrder(GetText(doc))
            good == {i \in DOMAIN all : InDisplayBand(all[i])}
        IN  IF good = {} THEN ret = None
            ELSE ret = ParsePrice(all[CHOOSE i \in good : \A k \in good : i <= k])

\* an amount of a later pattern comes first on the page and is passed over
C11_LaterPatternComesFirst ==
    /\ call = "find_price" /\ OnlyCurrencyText(doc)
    /\ ret # None
    /\ ret \notin FirstOnPage(GetText(doc))

\* the example of the specification: loose text alone yields 1234.56
C11_LooseTextExample ==
    (call = "find_price" /\ doc = <<Elem("li", NoAttrs, "@1.234,56 ")>>)
        => ret = Float(123456, 2)

----------------------------------------------------------------------------
(* Properties of the name locator *)

\* the three sources of a name in their order, "" for a source that is
\* missing or empty
NameSources(d) ==
    LET m == First({x \in DOMAIN d : IsMeta(d[x], "og:title")})
        h == First({x \in DOMAIN d : d[x].tag = "h1"})
        t == First({x \in DOMAIN d : d[x].tag = "title"})
    IN  << IF m # 0 THEN AttrOr(d[m], "content") ELSE "",
           IF h # 0 THEN Strip(d[h].text) ELSE "",
           IF t # 0 THEN Strip(d[t].text) ELSE "" >>

\* C12: _find_name returns the first non-empty hit in the order og:title
\* content, first h1 trimmed text, title text, and null (an empty name
\* counts as null here) only when none of the three is non-empty; an
\* og:title meta with missing or empty content does not prevent a present h1
\* or title from being returned.
C12_FirstNonEmptyName ==
    call = "find_name" =>
        LET src  == NameSources(doc)
            hits == {i \in 1..3 : src[i] # ""}
        IN  IF hits = {} THEN ret \in {None, PyStr("")}
            ELSE ret = PyStr(src[CHOOSE i \in hits : \A k \in hits : i <= k])

----------------------------------------------------------------------------
(* Properties of scrape *)

\* scrape has run and its fetch handed a document to the locators
Extracted == call = "scrape" /\ in_stock # None

\* C13: scrape returns null for the whole extraction exactly when
\* _find_price yields null, whatever name and stock signals the document
\* holds; a non-null price always yields a record.
C13_NullExactlyWhenNoPrice ==
    Extracted => (ret = None <=> FindPrice(doc) = None)

\* a page with a name and an in-stock verdict but no price yields null
C13_NameAndStockWithoutPrice ==
    /\ Extracted
    /\ FindName(doc) = PyStr("Raquete X") /\ in_stock = Bool(TRUE)
    /\ ret = None

\* C14: when the price is non-null the record has exactly the fields
\* price = the located price, product_name = the located name or 'Unknown
\* Product' when the name locator returned null or empty, in_stock = the
\* stock locator's result, currency = 'EUR', url = the url passed in.
C14_RecordFields ==
    (Extracted /\ FindPrice(doc) # None) =>
        /\ DOMAIN ret = {"py", "price", "product_name", "in_stock", "currency", "url"}
        /\ ret.price = FindPrice(doc)
        /\ ret.product_name =
               IF FindName(doc) \in {None, PyStr("")} THEN PyStr("Unknown Product")
               ELSE FindName(doc)
        /\ ret.in_stock = FindStock(doc)
        /\ ret.currency = "EUR"
        /\ ret.url = PageUrl

\* a record whose name is the default because the og:title content is empty
C14_EmptyNameDefaulted ==
    /\ Extracted /\ ret # None
    /\ FindName(doc) = PyStr("")
    /\ ret.product_name = PyStr("Unknown Product")

\* C16: no failure inside extraction reaches the caller: for every document
\* and every fetch outcome scrape returns a record or null and never raises.
C16_ScrapeNeverRaises ==
    call = "scrape" => (ret = None \/ ret.py = "dict")

\* the fetch failed on a page that holds a price, and scrape returned null
C16_FetchFailureIsNull ==
    /\ call = "scrape" /\ in_stock = None
    /\ FindPrice(doc) # None
    /\ ret = None

----------------------------------------------------------------------------
(* Properties of scrape_all_stores *)

\* C17: the Selenium fallback is invoked for a product only when the primary
\* fetch succeeded and the engine returned null for that fetch's document;
\* when the primary fetch fails the engine is not invoked and the product is
\* skipped without any fallback call.
C17_FallbackOnlyAfterNullExtraction ==
    \A i \in 1..Len(fetch) :
        /\ SeleniumCall(i) \in calls =>
               (fetch[i] = "ok" /\ EngineCall(i, None) \in calls)
        /\ fetch[i] # "ok" =>
               (\A c \in calls : c.product # i)

----------------------------------------------------------------------------
(* Properties of concurrent extraction *)

\* what the call of thread t returns when it runs alone on its page
Alone(t) ==
    IF page[t].resp = "ok"
    THEN Record(FindPrice(page[t].doc), FindName(page[t].doc),
                FindStock(page[t].doc), ConfigProduct(t).url)
    ELSE None

\* C18: extraction calls may interleave without locking: in every
\* interleaving of the concurrent calls, each call returns what it would
\* return when run alone on its document.
C18_InterleavingIsHarmless ==
    \A t \in Threads : pc[t] = "done" => result[t] = Alone(t)

\* two calls on different pages are under way at once, each past its
\* locators and holding the price of its own page
C18_TwoCallsUnderWay ==
    /\ pc[1] = "return" /\ pc[2] = "stock"
    /\ page[1].doc # page[2].doc
    /\ frame[Slot(1)].price = FindPrice(page[1].doc)
    /\ frame[Slot(2)].price = FindPrice(page[2].doc)
    /\ None \notin {frame[Slot(1)].price, frame[Slot(2)].price}
    /\ frame[Slot(1)].price # frame[Slot(2)].price

----------------------------------------------------------------------------
(* Properties of strategies 3 and 4 of the stock locator *)

\* strategies 1 and 2 of _find_stock do not resolve
UnresolvedByMetaAndJsonLd(d) == StockMeta(d) = Fall /\ StockJsonLd(d) = Fall

\* a span, div, p, button or a whose trimmed lowercase text holds an
\* out-of-stock keyword in fewer than 10 words
HasShortOutOfStockLabel(d) ==
    \E i \in 1..Len(d) :
        /\ d[i].tag \in {"span", "div", "p", "button", "a"}
        /\ LET text == Lower(Strip(d[i].text))
           IN  /\ \E k \in OutOfStockPatterns : Contains(text, k)
               /\ WordCount(text) < 10

\* the whole-page text holds one of the two compound phrases
HasOutOfStockPhrase(d) ==
    LET page_text == Lower(ConcatText(d))
    IN  \/ Contains(page_text, "indispon^vel online")
        \/ Contains(page_text, "stock esgotado")

\* C19: when strategies 1 and 2 do not resolve, a short out-of-stock label
\* or one of the two whole-page phrases makes _find_stock return False even
\* when an enabled buy button is present; a matching text of 10 or more
\* words does not by itself cause False (with an enabled buy button and no
\* short label or phrase the result is True).
C19_LabelScanBeforeControls ==
    (call = "find_stock" /\ UnresolvedByMetaAndJsonLd(doc)) =>
        IF HasShortOutOfStockLabel(doc) \/ HasOutOfStockPhrase(doc)
        THEN ret = Bool(FALSE)
        ELSE HasActiveControl(doc) => ret = Bool(TRUE)

\* an enabled buy button next to a text of 10 words that is no label but
\* holds one of the whole-page phrases: the phrase makes the result False
C19_PhraseBeatsEnabledButton ==
    /\ call = "find_stock" /\ UnresolvedByMetaAndJsonLd(doc)
    /\ HasActiveControl(doc)
    /\ ~HasShortOutOfStockLabel(doc) /\ HasOutOfStockPhrase(doc)
    /\ \E i \in 1..Len(doc) : WordCount(doc[i].text) >= 10
    /\ ret = Bool(FALSE)

\* C20: in strategy 4, reached only when strategies 1-3 do not resolve, the
\* result is True if and only if at least one buy-verb control remains after
\* discarding the disabled, aria-disabled and hidden ones; a mix of disabled
\* and enabled controls yields True.
C20_TrueIffActiveControl ==
    ( /\ call = "find_stock"
      /\ UnresolvedByMetaAndJsonLd(doc)
      /\ StockLabels(doc) = Fall )
    => (ret = Bool(TRUE) <=> HasActiveControl(doc))

----------------------------------------------------------------------------
(* The default and the keyword lists of the stock locator *)

\* no availability meta, no JSON-LD availability, no out-of-stock label or
\* phrase
NoStockIndicator(d) ==
    /\ AvailabilityMeta(d) = 0
    /\ StockJsonLd(d) = Fall
    /\ ~HasShortOutOfStockLabel(d)
    /\ ~HasOutOfStockPhrase(d)

\* a button, input or a whose text holds a buy verb, disabled or not
HasBuyControl(d) ==
    \E i \in 1..Len(d) :
        /\ d[i].tag \in {"button", "input", "a"}
        /\ \E v \in CartPatterns : Contains(Lower(d[i].text), v)

C23_NegativeKeywordIsFalse ==
    (call = "find_stock" /\ AvailabilityMeta(doc) # 0) =>
        LET content == Lower(AttrOr(doc[AvailabilityMeta(doc)], "content"))
        IN  content \in {"oos", "out of stock", "unavailable", "esgotado",
                         "indisponivel"}
                => ret = Bool(FALSE)

----------------------------------------------------------------------------
(* Properties of the labeled-element strategy of the price locator *)

\* the normalized value of a labeled element: of its trimmed text, or of its
\* content attribute when it has no text
LabelValue(e) ==
    ParsePrice(IF Strip(e.text) # "" THEN Strip(e.text) ELSE AttrOr(e, "content"))

\* the pairs (keyword number, element index) of the span, div, p, meta,
\* strong and b elements whose class or id holds the keyword and whose value
\* normalizes
KeywordHits(d) ==
    {h \in (DOMAIN PricePatterns) \X (DOMAIN d) :
        /\ d[h[2]].tag \in {"span", "div", "p", "meta", "strong", "b"}
        /\ \/ Contains(Lower(AttrOr(d[h[2]], "class")), PricePatterns[h[1]])
           \/ Contains(Lower(AttrOr(d[h[2]], "id")), PricePatterns[h[1]])
        /\ LabelValue(d[h[2]]) # None}

\* the hit of the earliest keyword and, for that keyword, of the earliest
\* element
EarliestHit(hits) ==
    CHOOSE h \in hits :
        \A g \in hits : h[1] < g[1] \/ (h[1] = g[1] /\ h[2] <= g[2])

\* the values an itemprop='price' element can give: of its text and of its
\* content attribute
ItempropValues(e) ==
    {ParsePrice(Strip(e.text)), ParsePrice(AttrOr(e, "content"))} \ {None}

\* the itemprop='price' elements whose text or content normalizes
ItempropHits(d) ==
    {x \in DOMAIN d : /\ HasAttr(d[x], "itemprop")
                      /\ Attr(d[x], "itemprop") = "price"
                      /\ ItempropValues(d[x]) # {}}

\* C21: in strategy 4 of _find_price an element with itemprop='price' whose
\* text or content normalizes is returned ahead of any class/id keyword
\* match; otherwise the keywords are scanned in the order price, preco,
\* precio, prix, cost, value and for each keyword the matching elements in
\* document order, the first normalizable one winning.
C21_ItempropBeforeKeywords ==
    (call = "find_price" /\ \A n \in 1..3 : PriceStrategy(n, doc) = Fall) =>
        IF ItempropHits(doc) # {}
        THEN \E x \in ItempropHits(doc) : ret \in ItempropValues(doc[x])
        ELSE KeywordHits(doc) # {} =>
                 ret = LabelValue(doc[EarliestHit(KeywordHits(doc))[2]])

\* the same with only the first itemprop='price' element of the document
\* looked at, its content read only when it has no text
FirstItempropThenKeywordOrder ==
    (call = "find_price" /\ \A n \in 1..3 : PriceStrategy(n, doc) = Fall) =>
        LET ip == First({x \in DOMAIN doc : HasAttr(doc[x], "itemprop")
                                            /\ Attr(doc[x], "itemprop") = "price"})
        IN  IF ip # 0 /\ LabelValue(doc[ip]) # None
            THEN ret = LabelValue(doc[ip])
            ELSE KeywordHits(doc) # {} =>
                     ret = LabelValue(doc[EarliestHit(KeywordHits(doc))[2]])

\* a match for a later keyword comes first in the document and the match
\* for the earlier keyword is returned
EarlierKeywordWins ==
    /\ call = "find_price"
    /\ Len(doc) = 2
    /\ doc[1] = Elem("div", {<<"id", "cost">>}, "45,00")
    /\ doc[2] = Elem("span", {<<"class", "Product-Price">>}, "30,00")
    /\ ret = Float(30, 0)

----------------------------------------------------------------------------
(* Properties of the records collected by scrape_all_stores *)

\* C24: every record of the list returned by scrape_all_stores carries a
\* boolean in_stock field, whether it comes from the generic scraper or
\* from the Selenium fallback.
C24_EveryRecordHasStock ==
    \A i \in DOMAIN prices :
        /\ "in_stock" \in DOMAIN prices[i]
        /\ prices[i].in_stock \in {Bool(TRUE), Bool(FALSE)}

----------------------------------------------------------------------------
(* Properties of run_check, the history and the alert *)

\* the entry that was the last of the history before the check under way
\* (or just finished) appended its own; None on the very first check
EntryBefore(entries) ==
    IF Len(entries) <= 1 THEN None ELSE entries[Len(entries) - 1]

\* C25: in a run_check that obtains a price the order is read-previous,
\* append-current, evaluate, notify: the previous prices handed to the
\* notifier are the entry that was last before this check appended its own
\* (null on the first check), the current prices are appended exactly once
\* per check even if the notification fails, and with no price obtained the
\* history is unchanged and nothing is sent.
C25_ReadAppendEvaluateNotify ==
    /\ mail # None => mail.previous = EntryBefore(added)
    /\ db_file = [ok |-> TRUE, history |-> added]
    /\ (check_pc = "idle" /\ current_prices = <<>>) => mail = None

\* the product a record was scraped from: the one with its url
SourceProduct(cfg, price_data) ==
    CHOOSE i \in DOMAIN cfg.products : cfg.products[i].url = price_data.url

\* the max_price configured for product i, the default when it has none
Threshold(cfg, i) ==
    IF "max_price" \in DOMAIN cfg.products[i] THEN cfg.products[i].max_price
    ELSE DefaultAlert(cfg).max_price

\* the price is non-null and <= the threshold of its product
Qualifies(cfg, price_data) ==
    /\ price_data.price # None
    /\ ~Above(price_data.price, Threshold(cfg, SourceProduct(cfg, price_data)))

\* C26: check_opportunities reports a scraped price exactly when it is
\* non-null and <= the max_price configured for the product it was scraped
\* from (default_alert.max_price when the product has none), also when
\* several products share a store name; the list keeps the order of
\* current_prices and adds only a 'reason' field.
C26_ThresholdOfTheProduct ==
    call = "check_opportunities" =>
        LET expected == SelectSeq(current_prices,
                                  LAMBDA price_data : Qualifies(config, price_data))
        IN  /\ Len(opportunities) = Len(expected)
            /\ \A i \in DOMAIN opportunities :
                   /\ DOMAIN opportunities[i] = DOMAIN expected[i] \cup {"reason"}
                   /\ \A f \in DOMAIN expected[i] :
                          opportunities[i][f] = expected[i][f]

\* C27: the stored history is append-only: after any sequence of
\* add_price_check calls it holds every stored entry unchanged and in
\* order, one per call, and get_latest_prices returns the entry of the most
\* recent add_price_check, also when a load or a save of the file fails in
\* between.
C27_HistoryIsAppendOnly ==
    /\ db_file.history = added
    /\ call = "get_latest_prices" =>
           ret = IF added = <<>> THEN None ELSE added[Len(added)]

\* C28: for every opportunity of an alert the plain-text part and the HTML
\* part of the message state the same stock status, for every record shape
\* that reaches the notifier, records without in_stock included.
C28_SameStockInBothParts ==
    mail # None =>
        \A i \in DOMAIN mail.text : mail.text[i].stock = mail.html[i].stock

====
